---- MODULE Spec2Model ----
(***************************************************************************)
(* Process Period Closing Voucher: the batch scheduler, the per-date       *)
(* worker and the ledger poster of                                         *)
(* erpnext/accounts/doctype/process_period_closing_voucher.                *)
(*                                                                         *)
(* Storage is one shared database.  Each of start_pcv_processing,          *)
(* resume_pcv_processing and schedule_next_date is one step.               *)
(* process_individual_date is two steps: the guarded computation and       *)
(* write of the unit, then its chain call of schedule_next_date.           *)
(* pause_pcv_processing is two steps: the update of the run together with  *)
(* the read of the Queued names, then the bulk update of those names.      *)
(***************************************************************************)
EXTENDS Integers, Sequences, FiniteSets, Bags, TLC

\* ---------------------------------------------------------------- bounds
MaxDays == 3        \* longest voucher period, in calendar days
MaxCalls == 2       \* whitelisted calls (Start, Pause, Resume) made by users
NumWorkers == 2     \* background workers between their write and their chain call
MaxFailures == 1    \* failed postings, and worker jobs that are aborted at a time
MaxRows == 2        \* rows of the grouped query over all dates of a drawn ledger
MaxSessions == 2    \* largest max_sessions a MemoryStore is constructed with
MaxTime == 2        \* times the clock is read later, each a time to live after the last
MaxMessages == 2    \* messages held by the stored sessions together

\* ------------------------------------------------------- program constants
BatchSize == 4      \* limit=4 of both get_all queries on Queued units
session_ttl_hours == 24   \* default of MemoryStore.__init__

VARIABLES
    status,               \* Process Period Closing Voucher.status
    units,                \* Process Period Closing Voucher Detail rows of the run
    p_l_closing_balance,  \* Process Period Closing Voucher.p_l_closing_balance
    gl_posted,            \* batches accepted by make_gl_entries, in order
    queue,                \* bag of enqueued process_individual_date jobs
    advancing,            \* workers that wrote their unit and have yet to chain-call
    queued_dates,         \* pause_pcv_processing: names read, bulk update pending
    pausing,              \* a pause_pcv_processing call is between its two steps
    calls,                \* whitelisted calls made so far
    parent_pcv,           \* the Period Closing Voucher of the run
    skipped,              \* units for which a worker returned at its status guard
    paused,               \* a pause_pcv_processing call returned, no resume since
    in_flight,            \* rows were Running when the last such call began
    faults,               \* posting failures so far, units whose worker aborted
    memory_store,         \* the agent's MemoryStore: _sessions, _max_sessions, _session_ttl
    utcnow,               \* datetime.utcnow(), in hours
    returned,             \* what the call on the MemoryStore returned, if the step was one
    chat,                 \* the chat_with_agent call: its position, counters and result
    patch                 \* the gain/loss repair patch: its position, locals and database

\* what the steps of the scheduler, the worker and the poster leave alone
others == <<faults, memory_store, utcnow, returned, chat, patch>>

vars == <<status, units, p_l_closing_balance, gl_posted, queue, advancing,
          queued_dates, pausing, calls, parent_pcv, skipped, paused, in_flight,
          others>>

\* ------------------------------------------------------------- the ledger
\* get_dimensions(): the default dimensions, no custom accounting dimension
default_dimensions == <<"cost_center", "finance_book", "project">>

get_dimensions == default_dimensions

\* Account.report_type of the company's accounts
Account == [Sales |-> "Profit and Loss", Rent |-> "Profit and Loss",
            Cash |-> "Balance Sheet"]

\* A field value is None or a str; a str is a sequence of tokens, the
\* comma being a token of its own
None == [null |-> TRUE, str |-> <<>>]
Text(t) == [null |-> FALSE, str |-> <<t>>]

GLRow(d, acc, cc, dr, cr, cancelled) ==
    [posting_date |-> d, account |-> acc, cost_center |-> cc,
     finance_book |-> None, project |-> None,
     debit |-> dr, credit |-> cr,
     debit_in_account_currency |-> dr, credit_in_account_currency |-> cr,
     account_currency |-> "INR", is_cancelled |-> cancelled]

\* GL Entry rows of the company
GLEntry ==
    << GLRow(1, "Cash", Text("Main"), 5, 0, 0),
       GLRow(1, "Sales", Text("Main"), 0, 5, 0),
       GLRow(1, "Sales", Text("Main"), 0, 2, 0),
       GLRow(1, "Rent", Text("Main"), 2, 0, 0),
       GLRow(1, "Sales", Text("Main"), 0, 9, 1),
       GLRow(2, "Rent", Text("Branch"), 3, 0, 0),
       GLRow(2, "Sales", Text("Branch"), 0, 3, 0),
       GLRow(2, "Cash", None, 0, 3, 0) >>

\* The Period Closing Voucher the run belongs to
PeriodClosingVoucher(days, first) ==
    [name |-> "PCV-1", company |-> "C", closing_account_head |-> "Reserves",
     period_start_date |-> 1, period_end_date |-> days,
     is_first_period_closing_voucher |-> first]

\* ------------------------------------------------------------- validation
get_dates(start, end) == [x \in 1..(end - start + 1) |-> start + x - 1]

Detail(field, d, rt) ==
    [parentfield |-> field, processing_date |-> d, report_type |-> rt,
     status |-> "Queued", closing_balance |-> <<>>]

RECURSIVE generate_pcv_dates(_)
generate_pcv_dates(dates) ==
    IF dates = <<>> THEN <<>>
    ELSE << Detail("dates_to_process", Head(dates), "Profit and Loss"),
            Detail("dates_to_process", Head(dates), "Balance Sheet") >>
         \o generate_pcv_dates(Tail(dates))

SeqMin(s) == CHOOSE x \in {s[i] : i \in DOMAIN s} : \A i \in DOMAIN s : x <= s[i]
SeqMax(s) == CHOOSE x \in {s[i] : i \in DOMAIN s} : \A i \in DOMAIN s : x >= s[i]

\* no opening balance rows, whatever the voucher
generate_opening_balances_dates_none(pcv) == <<>>

generate_opening_balances_dates(pcv) ==
    IF pcv.is_first_period_closing_voucher
    THEN LET posting == [i \in DOMAIN GLEntry |-> GLEntry[i].posting_date]
             dates == get_dates(SeqMin(posting), SeqMax(posting))
         IN [i \in DOMAIN dates |-> Detail("opening_balances", dates[i], "Balance Sheet")]
    ELSE <<>>

\* validate: status Queued, both child tables rebuilt; all rows are
\* Process Period Closing Voucher Detail rows with parent = the run
populate_processing_tables(pcv) ==
    generate_pcv_dates(get_dates(pcv.period_start_date, pcv.period_end_date))
    \o generate_opening_balances_dates(pcv)

\* ---------------------------------------------------------------- queries
Names == DOMAIN units

Key(u) == <<u.processing_date, u.report_type>>

WithStatus(us, st) == {n \in DOMAIN us : us[n].status = st}

\* get_all(filters status=Queued, order_by processing_date, limit 4): the
\* possible results. Rows of one date come in no specified order, so the
\* result is every row before the date at which the limit falls and any
\* choice of the rows of that date that fills the limit
get_all_queued(us) ==
    LET Q == WithStatus(us, "Queued")
        Before(d) == {n \in Q : us[n].processing_date < d}
        On(d) == {n \in Q : us[n].processing_date = d}
    IN IF Cardinality(Q) <= BatchSize THEN {Q}
       ELSE LET d == CHOOSE x \in {us[n].processing_date : n \in Q} :
                        /\ Cardinality(Before(x)) < BatchSize
                        /\ Cardinality(Before(x)) + Cardinality(On(x)) >= BatchSize
            IN {Before(d) \cup T : T \in
                  {X \in SUBSET On(d) :
                      Cardinality(X) = BatchSize - Cardinality(Before(d))}}

\* frappe.db.set_value(doctype, {processing_date, parent, report_type},
\* "status", value): every row matching the filter is updated
set_status(us, key, st) ==
    [n \in DOMAIN us |->
        IF Key(us[n]) = key THEN [us[n] EXCEPT !.status = st] ELSE us[n]]

set_status_all(us, keys, st) ==
    [n \in DOMAIN us |->
        IF Key(us[n]) \in keys THEN [us[n] EXCEPT !.status = st] ELSE us[n]]

\* one enqueued job per fetched row
RECURSIVE enqueue_all(_, _, _)
enqueue_all(q, us, S) ==
    IF S = {} THEN q
    ELSE LET n == CHOOSE x \in S : TRUE
         IN enqueue_all(q (+) SetToBag({Key(us[n])}), us, S \ {n})

\* ------------------------------------------------------ balance aggregator
RECURSIVE values_of(_, _)
values_of(res, dimensions) ==
    IF dimensions = <<>> THEN <<>>
    ELSE <<res[Head(dimensions)]>> \o values_of(res, Tail(dimensions))

\* tuple([res.get(dimension) for dimension in get_dimensions()])
get_dimension_key(res) == values_of(res, get_dimensions)

RECURSIVE SumOver(_, _, _)
SumOver(rows, I, field) ==
    IF I = {} THEN 0
    ELSE LET i == CHOOSE x \in I : TRUE
         IN rows[i][field] + SumOver(rows, I \ {i}, field)

RECURSIVE SetToSeq(_)
SetToSeq(S) ==
    IF S = {} THEN <<>>
    ELSE LET x == CHOOSE y \in S : TRUE IN <<x>> \o SetToSeq(S \ {x})

\* the grouped query of process_individual_date: one row per
\* (account, dimensions) over the non-cancelled entries of the date whose
\* account has the report type
Summarize(date, report_type) ==
    LET accounts == {a \in DOMAIN Account : Account[a] = report_type}
        I == {i \in DOMAIN GLEntry :
                /\ GLEntry[i].is_cancelled = 0
                /\ GLEntry[i].posting_date = date
                /\ GLEntry[i].account \in accounts}
        G == {<<GLEntry[i].account, get_dimension_key(GLEntry[i])>> : i \in I}
        Of(g) == {i \in I : <<GLEntry[i].account, get_dimension_key(GLEntry[i])>> = g}
        Row(g) ==
            LET i0 == CHOOSE i \in Of(g) : TRUE
            IN [account |-> g[1],
                cost_center |-> GLEntry[i0].cost_center,
                finance_book |-> GLEntry[i0].finance_book,
                project |-> GLEntry[i0].project,
                debit |-> SumOver(GLEntry, Of(g), "debit"),
                credit |-> SumOver(GLEntry, Of(g), "credit"),
                debit_in_account_currency |->
                    SumOver(GLEntry, Of(g), "debit_in_account_currency"),
                credit_in_account_currency |->
                    SumOver(GLEntry, Of(g), "credit_in_account_currency"),
                account_currency |-> GLEntry[i0].account_currency]
    IN SetToSeq({Row(g) : g \in G})

ReportTypes == {"Profit and Loss", "Balance Sheet"}

RECURSIVE tabulate(_)
tabulate(keys) ==
    IF keys = {} THEN <<>>
    ELSE LET k == CHOOSE x \in keys : TRUE
         IN (k :> Summarize(k[1], k[2])) @@ tabulate(keys \ {k})

\* the result of the grouped query for every date a row can have
query_run ==
    LET posting == [i \in DOMAIN GLEntry |-> GLEntry[i].posting_date]
    IN tabulate(((1..MaxDays) \cup (SeqMin(posting)..SeqMax(posting))) \X ReportTypes)

\* ---------------------------------------------------------- ledger poster
\* a dict: its keys in insertion order and its values
EmptyDict == [keys |-> <<>>, val |-> <<>>]

Has(d, k) == \E i \in DOMAIN d.keys : d.keys[i] = k

Put(d, k, v) ==
    [keys |-> IF Has(d, k) THEN d.keys ELSE Append(d.keys, k),
     val |-> (k :> v) @@ d.val]

\* amounts are integers, on which flt() changes nothing
\* one pass of the loop of build_dimension_wise_balance_dict: the two
\* setdefault calls, then the additions to the account and to "balances"
add_gl_entry(dimension_balances, x) ==
    LET dimension_key == get_dimension_key(x)
        account_balances ==
            IF Has(dimension_balances, dimension_key)
            THEN dimension_balances.val[dimension_key] ELSE EmptyDict
        account ==
            IF Has(account_balances, x.account)
            THEN account_balances.val[x.account]
            ELSE [debit_in_account_currency |-> 0,
                  credit_in_account_currency |-> 0,
                  debit |-> 0, credit |-> 0,
                  account_currency |-> x.account_currency]
        balances ==
            IF Has(account_balances, "balances")
            THEN account_balances.val["balances"]
            ELSE [balance_in_account_currency |-> 0,
                  balance_in_company_currency |-> 0]
    IN Put(dimension_balances, dimension_key,
           Put(Put(account_balances, x.account,
                   [account EXCEPT
                      !.debit_in_account_currency = @ + x.debit_in_account_currency,
                      !.credit_in_account_currency = @ + x.credit_in_account_currency,
                      !.debit = @ + x.debit,
                      !.credit = @ + x.credit]),
               "balances",
               [balances EXCEPT
                  !.balance_in_account_currency =
                      @ + (x.debit_in_account_currency - x.credit_in_account_currency),
                  !.balance_in_company_currency = @ + (x.debit - x.credit)]))

RECURSIVE build_dimension_wise_balance_dict_from(_, _)
build_dimension_wise_balance_dict_from(dimension_balances, gl_entries) ==
    IF gl_entries = <<>> THEN dimension_balances
    ELSE CHOOSE result \in
           {build_dimension_wise_balance_dict_from(d, Tail(gl_entries)) :
              d \in {add_gl_entry(dimension_balances, Head(gl_entries))}} : TRUE

build_dimension_wise_balance_dict(gl_entries) ==
    CHOOSE result \in
      {build_dimension_wise_balance_dict_from(EmptyDict, g) : g \in {gl_entries}} : TRUE

\* str() of a field value
str(v) == IF v.null THEN <<"None">> ELSE v.str

RECURSIVE join(_, _)
join(sep, parts) ==
    IF parts = <<>> THEN <<>>
    ELSE IF Len(parts) = 1 THEN parts[1]
    ELSE parts[1] \o sep \o join(sep, Tail(parts))

str_key(k) == join(<<",">>, [i \in DOMAIN k |-> str(k[i])])

\* json_dict of summarize_and_post_ledger_entries: a later key with the
\* same string replaces the earlier one
RECURSIVE json_dict_from(_, _, _)
json_dict_from(json_dict, d, i) ==
    IF i > Len(d.keys) THEN json_dict
    ELSE json_dict_from(Put(json_dict, str_key(d.keys[i]), d.val[d.keys[i]]), d, i + 1)

Abs(n) == IF n < 0 THEN -n ELSE n

\* "for i, dimension in enumerate(dimensions): gl_entry[dimension] =
\* dimensions[i]": the fields assigned, as (field, value) pairs
update_dimensions(dimensions) ==
    {<<dimensions[i], dimensions[i]>> : i \in DOMAIN dimensions}

get_gle_for_pl_account(pcv, acc, balances, dimensions) ==
    LET balance_in_account_currency ==
            balances.debit_in_account_currency - balances.credit_in_account_currency
        balance_in_company_currency == balances.debit - balances.credit
    IN [company |-> pcv.company,
        posting_date |-> pcv.period_end_date,
        account |-> acc,
        account_currency |-> balances.account_currency,
        debit_in_account_currency |->
            IF balance_in_account_currency < 0
            THEN Abs(balance_in_account_currency) ELSE 0,
        debit |-> IF balance_in_company_currency < 0
                  THEN Abs(balance_in_company_currency) ELSE 0,
        credit_in_account_currency |->
            IF balance_in_account_currency > 0
            THEN Abs(balance_in_account_currency) ELSE 0,
        credit |-> IF balance_in_company_currency > 0
                   THEN Abs(balance_in_company_currency) ELSE 0,
        voucher_no |-> pcv.name,
        dimensions |-> update_dimensions(dimensions)]

\* the closing entry with its two sides exchanged
get_gle_for_closing_account_swapped(pcv, dimension_balance, dimensions) ==
    LET balance_in_company_currency == dimension_balance.balance_in_company_currency
        debit == IF balance_in_company_currency < 0
                 THEN Abs(balance_in_company_currency) ELSE 0
        credit == IF balance_in_company_currency > 0
                  THEN balance_in_company_currency ELSE 0
    IN [company |-> pcv.company,
        posting_date |-> pcv.period_end_date,
        account |-> pcv.closing_account_head,
        account_currency |-> "INR",
        debit_in_account_currency |-> debit,
        debit |-> debit,
        credit_in_account_currency |-> credit,
        credit |-> credit,
        voucher_no |-> pcv.name,
        dimensions |-> update_dimensions(dimensions)]

get_gle_for_closing_account(pcv, dimension_balance, dimensions) ==
    LET balance_in_company_currency == dimension_balance.balance_in_company_currency
        debit == IF balance_in_company_currency > 0
                 THEN balance_in_company_currency ELSE 0
        credit == IF balance_in_company_currency < 0
                  THEN Abs(balance_in_company_currency) ELSE 0
    IN [company |-> pcv.company,
        posting_date |-> pcv.period_end_date,
        account |-> pcv.closing_account_head,
        account_currency |-> "INR",
        debit_in_account_currency |-> debit,
        debit |-> debit,
        credit_in_account_currency |-> credit,
        credit |-> credit,
        voucher_no |-> pcv.name,
        dimensions |-> update_dimensions(dimensions)]

\* a reversing entry for every account, whatever its balance
RECURSIVE pl_accounts_reverse_gle_all(_, _, _, _)
pl_accounts_reverse_gle_all(pcv, dimensions, account_balances, i) ==
    IF i > Len(account_balances.keys) THEN <<>>
    ELSE
      LET acc == account_balances.keys[i]
          balances == account_balances.val[acc]
      IN (IF acc # "balances"
          THEN <<get_gle_for_pl_account(pcv, acc, balances, dimensions)>>
          ELSE <<>>)
         \o pl_accounts_reverse_gle_all(pcv, dimensions, account_balances, i + 1)

\* the reversing entries of one dimension key; the "balances" item of the
\* dict has no debit and no credit, hence a zero balance and no entry
RECURSIVE pl_accounts_reverse_gle(_, _, _, _)
pl_accounts_reverse_gle(pcv, dimensions, account_balances, i) ==
    IF i > Len(account_balances.keys) THEN <<>>
    ELSE
      LET acc == account_balances.keys[i]
          balances == account_balances.val[acc]
          balance_in_company_currency ==
              IF acc = "balances" THEN 0 ELSE balances.debit - balances.credit
      IN (IF balance_in_company_currency # 0
          THEN <<get_gle_for_pl_account(pcv, acc, balances, dimensions)>>
          ELSE <<>>)
         \o pl_accounts_reverse_gle(pcv, dimensions, account_balances, i + 1)

RECURSIVE build_gl_map(_, _, _, _)
build_gl_map(pcv, d, i, which) ==
    IF i > Len(d.keys) THEN <<>>
    ELSE
      LET dimensions == d.keys[i]
          account_balances == d.val[dimensions]
      IN (IF which = "pl"
          THEN pl_accounts_reverse_gle(pcv, dimensions, account_balances, 1)
          ELSE <<get_gle_for_closing_account(
                     pcv, account_balances.val["balances"], dimensions)>>)
         \o build_gl_map(pcv, d, i + 1, which)

\* the closing balances of the Profit and Loss rows of dates_to_process
RECURSIVE closing_balances(_, _)
closing_balances(us, n) ==
    IF n > Len(us) THEN <<>>
    ELSE (IF us[n].parentfield = "dates_to_process"
             /\ us[n].report_type = "Profit and Loss"
          THEN us[n].closing_balance[1] ELSE <<>>)
         \o closing_balances(us, n + 1)

\* json.loads(None) raises
poster_raises(us) ==
    \E n \in DOMAIN us :
        /\ us[n].parentfield = "dates_to_process"
        /\ us[n].report_type = "Profit and Loss"
        /\ us[n].closing_balance = <<>>

\* ------------------------------------------------------------ the database
DB == [status |-> status, units |-> units, queue |-> queue,
       p_l_closing_balance |-> p_l_closing_balance, gl_posted |-> gl_posted]

Store(db) ==
    /\ status' = db.status
    /\ units' = db.units
    /\ queue' = db.queue
    /\ p_l_closing_balance' = db.p_l_closing_balance
    /\ gl_posted' = db.gl_posted

\* --------------------------------------------------------- batch scheduler
\* start_pcv_processing leaving a run without Queued rows Running
start_pcv_processing_no_else(db, inactive, dates_to_process) ==
    IF db.status \in {"Queued", "Running"}
    THEN IF dates_to_process # {} /\ ~inactive
         THEN [db EXCEPT
                 !.status = "Running",
                 !.units = set_status_all(
                     db.units,
                     {Key(db.units[n]) : n \in dates_to_process}, "Running"),
                 !.queue = enqueue_all(db.queue, db.units, dates_to_process)]
         ELSE [db EXCEPT !.status = "Running"]
    ELSE db

\* start_pcv_processing claiming whatever is_scheduler_inactive() answers
start_pcv_processing_always(db, inactive, dates_to_process) ==
    IF db.status \in {"Queued", "Running"}
    THEN IF dates_to_process # {}
         THEN [db EXCEPT
                 !.status = "Running",
                 !.units = set_status_all(
                     db.units,
                     {Key(db.units[n]) : n \in dates_to_process}, "Running"),
                 !.queue = enqueue_all(db.queue, db.units, dates_to_process)]
         ELSE [db EXCEPT !.status = "Completed"]
    ELSE db

\* dates_to_process is the result of the limit-4 query on Queued rows
start_pcv_processing(db, inactive, dates_to_process) ==
    IF db.status \in {"Queued", "Running"}
    THEN IF dates_to_process # {}
         THEN IF ~inactive
              THEN [db EXCEPT
                      !.status = "Running",
                      !.units = set_status_all(
                          db.units,
                          {Key(db.units[n]) : n \in dates_to_process}, "Running"),
                      !.queue = enqueue_all(db.queue, db.units, dates_to_process)]
              ELSE [db EXCEPT !.status = "Running"]
         ELSE [db EXCEPT !.status = "Completed"]
    ELSE db

\* a bulk update that writes nothing
pause_update_none(us, names) == us

\* the bulk update of pause_pcv_processing, by name
pause_update(us, names) ==
    [n \in DOMAIN us |->
        IF n \in names THEN [us[n] EXCEPT !.status = "Paused"] ELSE us[n]]

\* the bulk update of resume_pcv_processing
requeue(us) ==
    [n \in DOMAIN us |->
        IF us[n].status = "Paused" THEN [us[n] EXCEPT !.status = "Queued"] ELSE us[n]]

\* pause_pcv_processing with nothing running between its two steps
pause_pcv_processing(db) ==
    [db EXCEPT !.status = "Paused",
               !.units = pause_update(db.units, WithStatus(db.units, "Queued"))]

resume_pcv_processing(db, inactive, dates_to_process) ==
    IF WithStatus(db.units, "Paused") # {}
    THEN start_pcv_processing(
             [db EXCEPT !.status = "Running", !.units = requeue(db.units)],
             inactive, dates_to_process)
    ELSE [db EXCEPT !.status = "Running"]

\* summarize_and_post_ledger_entries from "convert tuple key to str" on
save_and_post(db, pcv, dimension_wise_acc_balances) ==
    LET json_dict == json_dict_from(EmptyDict, dimension_wise_acc_balances, 1)
        batch == build_gl_map(pcv, dimension_wise_acc_balances, 1, "pl")
                 \o build_gl_map(pcv, dimension_wise_acc_balances, 1, "closing")
    IN [db EXCEPT
          !.p_l_closing_balance = <<json_dict>>,
          !.gl_posted = IF batch # <<>> THEN Append(@, batch) ELSE @,
          !.status = "Completed"]

\* the body of summarize_and_post_ledger_entries under "if not running";
\* when json.loads raises nothing is written
post_ledger_entries(db, pcv) ==
    IF poster_raises(db.units)
    THEN db
    ELSE CHOOSE result \in
           {save_and_post(db, pcv, d) :
              d \in {build_dimension_wise_balance_dict(closing_balances(db.units, 1))}} :
           TRUE

\* the poster refusing to run once a summary is stored
summarize_and_post_ledger_entries_once(db, pcv) ==
    IF WithStatus(db.units, "Running") # {} \/ db.p_l_closing_balance # <<>>
    THEN db
    ELSE post_ledger_entries(db, pcv)

summarize_and_post_ledger_entries(db, pcv) ==
    IF WithStatus(db.units, "Running") # {}
    THEN db
    ELSE post_ledger_entries(db, pcv)

\* the entries make_gl_entries is called with
gl_entries_of(dimension_wise_acc_balances, pcv) ==
    build_gl_map(pcv, dimension_wise_acc_balances, 1, "pl")
    \o build_gl_map(pcv, dimension_wise_acc_balances, 1, "closing")

\* summarize_and_post_ledger_entries when make_gl_entries raises: the
\* summary was written by set_value before the call, the status is not
\* written after it. The caller's transaction is rolled back, or was
\* committed up to the summary
make_gl_entries_raises(db, pcv, rolled_back) ==
    IF rolled_back
    THEN db
    ELSE [db EXCEPT !.p_l_closing_balance =
            <<json_dict_from(EmptyDict,
                build_dimension_wise_balance_dict(closing_balances(db.units, 1)), 1)>>]

\* any Queued row, whatever its date
first_queued_any(us) == WithStatus(us, "Queued")

\* to_process[0] of the limit-4 query: a Queued row of the earliest date
first_queued(us) ==
    {n \in WithStatus(us, "Queued") :
        \A m \in WithStatus(us, "Queued") :
            us[n].processing_date <= us[m].processing_date}

\* schedule_next_date posting as soon as no row is Queued
schedule_next_date_unguarded(db, inactive, next, pcv) ==
    IF WithStatus(db.units, "Queued") # {}
    THEN IF ~inactive
         THEN [db EXCEPT
                 !.units = set_status(db.units, Key(db.units[next]), "Running"),
                 !.queue = db.queue (+) SetToBag({Key(db.units[next])})]
         ELSE db
    ELSE post_ledger_entries(db, pcv)

\* schedule_next_date dispatching every fetched row, as Start does
schedule_next_date_batch(db, inactive, next, pcv) ==
    IF WithStatus(db.units, "Queued") # {}
    THEN IF ~inactive
         THEN LET to_process == CHOOSE S \in get_all_queued(db.units) : next \in S
              IN [db EXCEPT
                    !.units = set_status_all(
                        db.units, {Key(db.units[n]) : n \in to_process}, "Running"),
                    !.queue = enqueue_all(db.queue, db.units, to_process)]
         ELSE db
    ELSE LET total_no_of_dates == Len(db.units)
             completed == Cardinality(WithStatus(db.units, "Completed"))
         IN IF total_no_of_dates = completed
            THEN summarize_and_post_ledger_entries(db, pcv)
            ELSE db

\* schedule_next_date claiming nothing
schedule_next_date_idle(db, inactive, next, pcv) ==
    IF WithStatus(db.units, "Queued") # {}
    THEN db
    ELSE LET total_no_of_dates == Len(db.units)
             completed == Cardinality(WithStatus(db.units, "Completed"))
         IN IF total_no_of_dates = completed
            THEN summarize_and_post_ledger_entries(db, pcv)
            ELSE db

\* schedule_next_date without the comparison of the two counts
schedule_next_date_uncounted(db, inactive, next, pcv) ==
    IF WithStatus(db.units, "Queued") # {}
    THEN IF ~inactive
         THEN [db EXCEPT
                 !.units = set_status(db.units, Key(db.units[next]), "Running"),
                 !.queue = db.queue (+) SetToBag({Key(db.units[next])})]
         ELSE db
    ELSE summarize_and_post_ledger_entries(db, pcv)

schedule_next_date(db, inactive, next, pcv) ==
    IF WithStatus(db.units, "Queued") # {}
    THEN IF ~inactive
         THEN [db EXCEPT
                 !.units = set_status(db.units, Key(db.units[next]), "Running"),
                 !.queue = db.queue (+) SetToBag({Key(db.units[next])})]
         ELSE db
    ELSE LET total_no_of_dates == Len(db.units)
             completed == Cardinality(WithStatus(db.units, "Completed"))
         IN IF total_no_of_dates = completed
            THEN summarize_and_post_ledger_entries(db, pcv)
            ELSE db

\* ---------------------------------------------------------- per-date worker
\* process_individual_date without its guard on the status
process_individual_date_unguarded(us, date, report_type, row) ==
    [n \in DOMAIN us |->
        IF Key(us[n]) = <<date, report_type>>
        THEN [us[n] EXCEPT
                !.closing_balance = <<query_run[<<date, report_type>>]>>,
                !.status = "Completed"]
        ELSE us[n]]

\* row is the row whose status get_value returns for the filter
process_individual_date(us, date, report_type, row) ==
    IF us[row].status # "Running"
    THEN us
    ELSE [n \in DOMAIN us |->
            IF Key(us[n]) = <<date, report_type>>
            THEN [us[n] EXCEPT
                    !.closing_balance = <<query_run[<<date, report_type>>]>>,
                    !.status = "Completed"]
            ELSE us[n]]

\* ------------------------------------------------------------------ actions
NoFaults == [failed |-> 0, aborted |-> {}]

\* session_id is None
NoSession == ""

\* no chat_with_agent call was made
NoChat ==
    [pc |-> "idle", session_id |-> NoSession, iteration |-> 0, invoked |-> 0,
     tool_calls_made |-> 0, added |-> <<>>, result |-> <<>>, calls |-> 0]

\* the repair patch is not run
NoPatch == [pc |-> "none"]

Init ==
    /\ \E days \in 1..MaxDays, first \in BOOLEAN :
          parent_pcv = PeriodClosingVoucher(days, first)
    /\ status = "Queued"
    /\ units = populate_processing_tables(parent_pcv)
    /\ p_l_closing_balance = <<>>
    /\ gl_posted = <<>>
    /\ queue = EmptyBag
    /\ advancing = 0
    /\ queued_dates = {}
    /\ pausing = FALSE
    /\ calls = 0
    /\ skipped = {}
    /\ paused = FALSE
    /\ in_flight = FALSE
    /\ faults = NoFaults
    /\ memory_store = <<>>
    /\ utcnow = 0
    /\ returned = <<>>
    /\ chat = NoChat
    /\ patch = NoPatch

\* on_submit, or a later whitelisted call; inactive is what
\* is_scheduler_inactive() answers during the call
Start(inactive) ==
    /\ calls < MaxCalls
    /\ calls' = calls + 1
    /\ \E dates_to_process \in get_all_queued(units) :
          \E db \in {start_pcv_processing(DB, inactive, dates_to_process)} : Store(db)
    /\ UNCHANGED others
    /\ UNCHANGED <<advancing, queued_dates, pausing, parent_pcv, skipped, paused,
                   in_flight>>

\* pause_pcv_processing up to its read of the Queued names
PauseRead ==
    /\ calls < MaxCalls
    /\ ~pausing
    /\ calls' = calls + 1
    /\ status' = "Paused"
    /\ queued_dates' = WithStatus(units, "Queued")
    /\ pausing' = (queued_dates' # {})
    /\ paused' = (paused \/ queued_dates' = {})
    /\ in_flight' = (WithStatus(units, "Running") # {})
    /\ UNCHANGED others
    /\ UNCHANGED <<units, p_l_closing_balance, gl_posted, queue, advancing, parent_pcv,
                   skipped>>

\* pause_pcv_processing: the bulk update of the names read
PauseWrite ==
    /\ pausing
    /\ units' = pause_update(units, queued_dates)
    /\ pausing' = FALSE
    /\ queued_dates' = {}
    /\ paused' = TRUE
    /\ UNCHANGED others
    /\ UNCHANGED <<status, p_l_closing_balance, gl_posted, queue, advancing, calls,
                   parent_pcv, skipped, in_flight>>

Resume(inactive) ==
    /\ calls < MaxCalls
    /\ calls' = calls + 1
    /\ \E dates_to_process \in get_all_queued(requeue(units)) :
          \E db \in {resume_pcv_processing(DB, inactive, dates_to_process)} : Store(db)
    /\ paused' = FALSE
    /\ in_flight' = FALSE
    /\ UNCHANGED others
    /\ UNCHANGED <<advancing, queued_dates, pausing, parent_pcv, skipped>>

\* a worker takes a job and runs process_individual_date up to the chain call
Worker(date, report_type) ==
    /\ BagIn(<<date, report_type>>, queue)
    /\ queue' = queue (-) SetToBag({<<date, report_type>>})
    /\ \E row \in {n \in Names : Key(units[n]) = <<date, report_type>>} :
          /\ units[row].status = "Running" => advancing < NumWorkers
          /\ units' = process_individual_date(units, date, report_type, row)
          /\ advancing' = IF units[row].status = "Running"
                          THEN advancing + 1 ELSE advancing
          /\ skipped' = IF units[row].status = "Running"
                        THEN skipped ELSE skipped \cup {<<date, report_type>>}
    /\ UNCHANGED others
    /\ UNCHANGED <<status, p_l_closing_balance, gl_posted, queued_dates, pausing,
                   calls, parent_pcv, paused, in_flight>>

\* the chain call of a worker that has written its unit
Advance(inactive) ==
    /\ advancing > 0
    /\ advancing' = advancing - 1
    /\ \E next \in (IF first_queued(units) = {} THEN {0} ELSE first_queued(units)) :
          \E db \in {schedule_next_date(DB, inactive, next, parent_pcv)} : Store(db)
    /\ UNCHANGED others
    /\ UNCHANGED <<queued_dates, pausing, calls, parent_pcv, skipped, paused, in_flight>>

Next ==
    \/ \E inactive \in BOOLEAN : Start(inactive)
    \/ PauseRead
    \/ PauseWrite
    \/ \E inactive \in BOOLEAN : Resume(inactive)
    \/ \E k \in BagToSet(queue) : Worker(k[1], k[2])
    \/ \E inactive \in BOOLEAN : Advance(inactive)

Spec == Init /\ [][Next]_vars

\* A submitted run with the scheduler active and no Pause: on_submit calls
\* Start, the job queue keeps executing enqueued jobs, every worker makes its
\* chain call
Submit == calls = 0 /\ Start(FALSE)

NextLive ==
    \/ Submit
    \/ calls > 0 /\ Start(FALSE)
    \/ calls > 0 /\ Resume(FALSE)
    \/ \E k \in BagToSet(queue) : Worker(k[1], k[2])
    \/ Advance(FALSE)

LiveSpec ==
    /\ Init
    /\ [][NextLive]_vars
    /\ WF_vars(Submit)
    /\ WF_vars(\E k \in BagToSet(queue) : Worker(k[1], k[2]))
    /\ WF_vars(Advance(FALSE))

\* Every call of Spec, where the job queue keeps executing enqueued jobs,
\* every worker makes its chain call and a Pause that has read the Queued
\* names goes on to its bulk update
FairSpec ==
    /\ Spec
    /\ WF_vars(\E k \in BagToSet(queue) : Worker(k[1], k[2]))
    /\ WF_vars(\E inactive \in BOOLEAN : Advance(inactive))
    /\ WF_vars(PauseWrite)

\* --------------------------------------------------------------- failures
\* the chain call reaches make_gl_entries, which raises
PostFails(rolled_back) ==
    /\ advancing > 0
    /\ faults.failed < MaxFailures
    /\ WithStatus(units, "Queued") = {}
    /\ Len(units) = Cardinality(WithStatus(units, "Completed"))
    /\ ~poster_raises(units)
    /\ gl_entries_of(build_dimension_wise_balance_dict(closing_balances(units, 1)),
                     parent_pcv) # <<>>
    /\ advancing' = advancing - 1
    /\ faults' = [faults EXCEPT !.failed = @ + 1]
    /\ UNCHANGED <<memory_store, utcnow, returned, chat, patch>>
    /\ \E db \in {make_gl_entries_raises(DB, parent_pcv, rolled_back)} : Store(db)
    /\ UNCHANGED <<queued_dates, pausing, calls, parent_pcv, skipped, paused, in_flight>>

\* schedule_next_date called as a whitelisted method after a failed posting
RetryAdvance ==
    /\ calls < MaxCalls
    /\ faults.failed > 0
    /\ calls' = calls + 1
    /\ \E next \in (IF first_queued(units) = {} THEN {0} ELSE first_queued(units)) :
          \E db \in {schedule_next_date(DB, FALSE, next, parent_pcv)} : Store(db)
    /\ UNCHANGED <<advancing, queued_dates, pausing, parent_pcv, skipped, paused,
                   in_flight, others>>

\* a worker passes its guard and raises before it writes its unit
WorkerAborts(date, report_type) ==
    /\ BagIn(<<date, report_type>>, queue)
    /\ Cardinality(faults.aborted) < MaxFailures
    /\ \E row \in {n \in Names : Key(units[n]) = <<date, report_type>>} :
          units[row].status = "Running"
    /\ queue' = queue (-) SetToBag({<<date, report_type>>})
    /\ faults' = [faults EXCEPT !.aborted = @ \cup {<<date, report_type>>}]
    /\ UNCHANGED <<memory_store, utcnow, returned, chat, patch>>
    /\ UNCHANGED <<status, units, p_l_closing_balance, gl_posted, advancing,
                   queued_dates, pausing, calls, parent_pcv, skipped, paused, in_flight>>

\* the job queue delivers the job of an aborted worker again
Redeliver(date, report_type) ==
    /\ <<date, report_type>> \in faults.aborted
    /\ queue' = queue (+) SetToBag({<<date, report_type>>})
    /\ faults' = [faults EXCEPT !.aborted = @ \ {<<date, report_type>>}]
    /\ UNCHANGED <<memory_store, utcnow, returned, chat, patch>>
    /\ UNCHANGED <<status, units, p_l_closing_balance, gl_posted, advancing,
                   queued_dates, pausing, calls, parent_pcv, skipped, paused, in_flight>>

NextFail ==
    \/ Submit
    \/ calls > 0 /\ Start(FALSE)
    \/ \E k \in BagToSet(queue) : Worker(k[1], k[2])
    \/ Advance(FALSE)
    \/ \E rolled_back \in BOOLEAN : PostFails(rolled_back)
    \/ RetryAdvance
    \/ \E k \in BagToSet(queue) : WorkerAborts(k[1], k[2])
    \/ \E k \in faults.aborted : Redeliver(k[1], k[2])

\* A submitted run with the scheduler active in which a posting can fail
\* and a worker can abort
FailSpec == Init /\ [][NextFail]_vars

\* ------------------------------------------------------ poster on any ledger
\* a cost center whose name contains a comma
Comma == [null |-> FALSE, str |-> <<"Main", ",", "West">>]

\* the cost centers of the drawn ledgers: none, one named None, one with a
\* comma in its name
CostCenters == {None, Text("None"), Comma}

\* the days the company has GL entries on
posting_dates ==
    LET posting == [i \in DOMAIN GLEntry |-> GLEntry[i].posting_date]
    IN get_dates(SeqMin(posting), SeqMax(posting))

\* (date, account, cost center): the groups of the grouped query; the
\* Balance Sheet account is drawn with one cost center
Groups ==
    {g \in {posting_dates[i] : i \in DOMAIN posting_dates}
             \X (DOMAIN Account) \X CostCenters :
        Account[g[2]] = "Balance Sheet" => g[3] = None}

\* (debit, credit) of a row: the sums of the debits and of the credits of
\* the entries of its group
Amounts == {<<1, 0>>, <<0, 1>>, <<1, 1>>, <<0, 2>>}

\* one row of the grouped query of process_individual_date
ResultRow(g, amount) ==
    [posting_date |-> g[1], account |-> g[2], cost_center |-> g[3],
     finance_book |-> None, project |-> None,
     debit |-> amount[1], credit |-> amount[2],
     debit_in_account_currency |-> amount[1],
     credit_in_account_currency |-> amount[2],
     account_currency |-> "INR"]

\* the results of the grouped query over all dates: at most n rows, one
\* row per group
RECURSIVE Ledgers(_)
Ledgers(n) ==
    IF n = 0 THEN {{}}
    ELSE LET P == Ledgers(n - 1)
         IN P \cup {L \cup {ResultRow(g, amount)} :
                      L \in P,
                      g \in Groups, amount \in Amounts}

OneRowPerGroup(L) ==
    \A x, y \in L :
        (x.posting_date = y.posting_date /\ x.account = y.account
         /\ x.cost_center = y.cost_center) => x = y

\* what the worker of the unit stores: the rows of its date and report type
result_of(L, key) ==
    LET rows == SetToSeq({x \in L : x.posting_date = key[1]
                                    /\ Account[x.account] = key[2]})
    IN [i \in DOMAIN rows |->
          [f \in DOMAIN rows[i] \ {"posting_date"} |-> rows[i][f]]]

\* a run of a first period closing voucher over the posting dates: every
\* unit is Completed with its result stored and the last worker is about to
\* make its chain call
InitPoster ==
    /\ parent_pcv = PeriodClosingVoucher(Len(posting_dates), TRUE)
    /\ \E L \in {X \in Ledgers(MaxRows) : OneRowPerGroup(X)} :
          units = [n \in DOMAIN populate_processing_tables(parent_pcv) |->
                     [populate_processing_tables(parent_pcv)[n] EXCEPT
                         !.status = "Completed",
                         !.closing_balance =
                             <<result_of(L, Key(populate_processing_tables(parent_pcv)[n]))>>]]
    /\ status = "Running"
    /\ p_l_closing_balance = <<>>
    /\ gl_posted = <<>>
    /\ queue = EmptyBag
    /\ advancing = 1
    /\ queued_dates = {}
    /\ pausing = FALSE
    /\ calls = 1
    /\ skipped = {}
    /\ paused = FALSE
    /\ in_flight = FALSE
    /\ faults = NoFaults
    /\ memory_store = <<>>
    /\ utcnow = 0
    /\ returned = <<>>
    /\ chat = NoChat
    /\ patch = NoPatch

NextPoster == Advance(FALSE)

PosterSpec == InitPoster /\ [][NextPoster]_vars

\* ------------------------------------------- the agent's MemoryStore
RECURSIVE Flatten(_)
Flatten(seqs) == IF seqs = <<>> THEN <<>> ELSE Head(seqs) \o Flatten(Tail(seqs))

SessionIds == {"s1", "s2", "s3"}

Roles == {"user", "assistant"}

\* MemoryStore.__init__; _sessions is a dict, kept in insertion order
MemoryStore(max_sessions, ttl_hours) ==
    [sessions |-> <<>>, max_sessions |-> max_sessions, session_ttl |-> ttl_hours]

\* a message, without its content, timestamp and metadata
Message(role) == [role |-> role]

ConversationSession(session_id, now) ==
    [session_id |-> session_id, messages |-> <<>>, updated_at |-> now]

add_message(session, role, now) ==
    [session EXCEPT !.messages = Append(@, Message(role)),
                    !.updated_at = now]

clear(session, now) == [session EXCEPT !.messages = <<>>, !.updated_at = now]

Stored(sessions) == {sessions[i].session_id : i \in DOMAIN sessions}

Lookup(sessions, session_id) ==
    sessions[CHOOSE i \in DOMAIN sessions : sessions[i].session_id = session_id]

\* del self._sessions[sid] for every sid of the set
Without(sessions, sids) ==
    SelectSeq(sessions, LAMBDA session : session.session_id \notin sids)

\* the sids whose session has now - updated_at > _session_ttl
expired(store, now) ==
    {store.sessions[i].session_id : i \in
        {j \in DOMAIN store.sessions :
            now - store.sessions[j].updated_at > store.session_ttl}}

\* sorted(items, key=updated_at): the sort is stable, sessions of the same
\* updated_at stay in insertion order
sorted_sessions(sessions) ==
    LET Before(i, j) ==
            \/ sessions[i].updated_at < sessions[j].updated_at
            \/ sessions[i].updated_at = sessions[j].updated_at /\ i < j
        rank(j) == Cardinality({i \in DOMAIN sessions : Before(i, j)})
    IN [r \in DOMAIN sessions |->
          sessions[CHOOSE j \in DOMAIN sessions : rank(j) = r - 1]]

\* the sids removed by "enforce max sessions"
oldest(sessions, max_sessions) ==
    IF Len(sessions) > max_sessions
    THEN LET to_remove == Len(sessions) - max_sessions
         IN {sorted_sessions(sessions)[r].session_id :
               r \in 1..(IF to_remove < Len(sessions) THEN to_remove ELSE Len(sessions))}
    ELSE {}

\* expiry that removes a session when its age reaches the time to live
cleanup_expired_early(store, now) ==
    LET kept == SelectSeq(store.sessions,
                    LAMBDA session : now - session.updated_at < store.session_ttl)
    IN [store EXCEPT !.sessions = Without(kept, oldest(kept, store.max_sessions))]

\* capacity enforced by removing the sessions updated last
cleanup_expired_newest(store, now) ==
    LET kept == Without(store.sessions, expired(store, now))
        to_remove == Len(kept) - store.max_sessions
    IN [store EXCEPT !.sessions =
          IF to_remove > 0
          THEN Without(kept, {sorted_sessions(kept)[r].session_id :
                                r \in (store.max_sessions + 1)..Len(kept)})
          ELSE kept]

cleanup_expired(store, now) ==
    LET kept == Without(store.sessions, expired(store, now))
    IN [store EXCEPT !.sessions = Without(kept, oldest(kept, store.max_sessions))]

\* the store after get_session; the session returned is Lookup of it
get_session(store, session_id, now) ==
    LET cleaned == cleanup_expired(store, now)
    IN IF session_id \notin Stored(cleaned.sessions)
       THEN [cleaned EXCEPT
               !.sessions = Append(@, ConversationSession(session_id, now))]
       ELSE cleaned

delete_session(store, session_id) ==
    [store EXCEPT !.sessions = Without(@, {session_id})]

\* the store after list_sessions; the list returned is its keys
list_sessions(store, now) == cleanup_expired(store, now)

\* the run of the period closing job plays no part
NoRun ==
    /\ parent_pcv = PeriodClosingVoucher(1, FALSE)
    /\ status = "Queued"
    /\ units = <<>>
    /\ p_l_closing_balance = <<>>
    /\ gl_posted = <<>>
    /\ queue = EmptyBag
    /\ advancing = 0
    /\ queued_dates = {}
    /\ pausing = FALSE
    /\ calls = 0
    /\ skipped = {}
    /\ paused = FALSE
    /\ in_flight = FALSE
    /\ faults = NoFaults

run_vars == <<status, units, p_l_closing_balance, gl_posted, queue, advancing,
              queued_dates, pausing, calls, parent_pcv, skipped, paused, in_flight,
              faults>>

InitMemory ==
    /\ NoRun
    /\ \E max_sessions \in 1..MaxSessions :
          memory_store = MemoryStore(max_sessions, session_ttl_hours)
    /\ utcnow = 0
    /\ returned = <<>>
    /\ chat = NoChat
    /\ patch = NoPatch

\* the sessions of the store, as a set
Sessions(store) == {store.sessions[i] : i \in DOMAIN store.sessions}

\* the sessions a call of _cleanup_expired deletes as expired
Expired == {session \in Sessions(memory_store) :
               session.session_id \in expired(memory_store, utcnow)}

\* the sessions a call of _cleanup_expired deletes to enforce max sessions
Evicted == (Sessions(memory_store) \ Expired)
               \ Sessions(cleanup_expired(memory_store, utcnow))

GetSession(session_id) ==
    /\ memory_store' = get_session(memory_store, session_id, utcnow)
    /\ returned' = [call |-> "get_session", session_id |-> session_id,
                    value |-> Lookup(memory_store'.sessions, session_id),
                    expired |-> Expired, evicted |-> Evicted]
    /\ UNCHANGED <<utcnow, run_vars, chat, patch>>

DeleteSession(session_id) ==
    /\ memory_store' = delete_session(memory_store, session_id)
    /\ returned' = [call |-> "delete_session", session_id |-> session_id,
                    value |-> session_id \in Stored(memory_store.sessions),
                    expired |-> {}, evicted |-> {}]
    /\ UNCHANGED <<utcnow, run_vars, chat, patch>>

ListSessions ==
    /\ memory_store' = list_sessions(memory_store, utcnow)
    /\ returned' = [call |-> "list_sessions", session_id |-> "",
                    value |-> [i \in DOMAIN memory_store'.sessions |->
                                 memory_store'.sessions[i].session_id],
                    expired |-> Expired, evicted |-> Evicted]
    /\ UNCHANGED <<utcnow, run_vars, chat, patch>>

\* session.add_message on a stored session, as chat_with_agent calls it:
\* the user's message, then the assistant's
AddMessage(session_id, role) ==
    /\ session_id \in Stored(memory_store.sessions)
    /\ role = (IF Len(Lookup(memory_store.sessions, session_id).messages) % 2 = 0
               THEN "user" ELSE "assistant")
    /\ Len(Flatten([i \in DOMAIN memory_store.sessions |->
                       memory_store.sessions[i].messages])) < MaxMessages
    /\ memory_store' =
          [memory_store EXCEPT !.sessions =
             [i \in DOMAIN @ |->
                IF @[i].session_id = session_id
                THEN add_message(@[i], role, utcnow) ELSE @[i]]]
    /\ returned' = <<>>
    /\ UNCHANGED <<utcnow, run_vars, chat, patch>>

\* session.clear on a stored session
Clear(session_id) ==
    /\ session_id \in Stored(memory_store.sessions)
    /\ memory_store' =
          [memory_store EXCEPT !.sessions =
             [i \in DOMAIN @ |->
                IF @[i].session_id = session_id
                THEN clear(@[i], utcnow) ELSE @[i]]]
    /\ returned' = <<>>
    /\ UNCHANGED <<utcnow, run_vars, chat, patch>>

\* time passes: the clock is next read a time to live later
Tick ==
    /\ utcnow < MaxTime * session_ttl_hours
    /\ utcnow' = utcnow + session_ttl_hours
    /\ returned' = <<>>
    /\ UNCHANGED <<memory_store, run_vars, chat, patch>>

NextMemory ==
    \/ \E session_id \in SessionIds : GetSession(session_id)
    \/ \E session_id \in SessionIds : DeleteSession(session_id)
    \/ ListSessions
    \/ \E session_id \in SessionIds, role \in Roles : AddMessage(session_id, role)
    \/ \E session_id \in SessionIds : Clear(session_id)
    \/ Tick

MemorySpec == InitMemory /\ [][NextMemory]_vars

\* ------------------------------------------------------ chat_with_agent
\* the calls made on one store
MaxChats == 3

\* the session ids of the calls
ChatIds == {"s1", "s2"}

max_iterations == 10

\* what ainvoke on the LLM does: a response without tool calls, a response
\* that requests tools, or an exception
Responses == {"final", "tool_calls", "raises"}

\* the returned dictionaries
not_configured ==
    [response |-> "Error: OpenAI API key is not configured", tool_calls |-> 0,
     error |-> TRUE, warning |-> ""]

final_response(tool_calls_made) ==
    [response |-> "response.content", tool_calls |-> tool_calls_made,
     error |-> FALSE, warning |-> ""]

fallback_response(tool_calls_made) ==
    [response |-> "I've made several tool calls but haven't reached a final answer",
     tool_calls |-> tool_calls_made, error |-> FALSE,
     warning |-> "Max iterations reached"]

\* "if session: session.add_message(role, ...)" on the session of the store
session_add_message(store, session_id, role, now) ==
    IF session_id = NoSession THEN store
    ELSE [store EXCEPT !.sessions =
            [i \in DOMAIN @ |->
               IF @[i].session_id = session_id
               THEN add_message(@[i], role, now) ELSE @[i]]]

\* a loop that runs once more than max_iterations allows
while_iteration_inclusive(iteration) == iteration <= max_iterations

\* "while iteration < max_iterations"
while_iteration(iteration) == iteration < max_iterations

\* the call up to the loop: the configuration check, the session of the
\* store and the user's message saved to it
ChatStart(session_id, configured) ==
    /\ chat.pc # "loop"
    /\ chat.calls < MaxChats
    /\ IF ~configured
       THEN /\ chat' = [NoChat EXCEPT !.pc = "returned", !.session_id = session_id,
                                      !.result = not_configured,
                                      !.calls = chat.calls + 1]
            /\ UNCHANGED memory_store
       ELSE /\ chat' = [NoChat EXCEPT !.pc = "loop",
                                      !.session_id = session_id,
                                      !.added = IF session_id = NoSession THEN <<>>
                                                ELSE <<"user">>,
                                      !.calls = chat.calls + 1]
            /\ memory_store' =
                  IF session_id = NoSession THEN memory_store
                  ELSE session_add_message(
                           get_session(memory_store, session_id, utcnow),
                           session_id, "user", utcnow)
    /\ UNCHANGED <<utcnow, returned, run_vars, patch>>

\* one iteration of the loop, and what follows the loop when it ends
ChatInvoke(response) ==
    /\ chat.pc = "loop"
    /\ LET iteration == chat.iteration + 1
           invoked == chat.invoked + 1
           session == IF chat.session_id = NoSession THEN <<>> ELSE <<"assistant">>
       IN CASE response = "raises" ->
                 /\ chat' = [chat EXCEPT !.pc = "raised", !.iteration = iteration,
                                         !.invoked = invoked]
                 /\ UNCHANGED memory_store
            [] response = "final" ->
                 /\ chat' = [chat EXCEPT !.pc = "returned", !.iteration = iteration,
                                         !.invoked = invoked,
                                         !.added = @ \o session,
                                         !.result = final_response(chat.tool_calls_made)]
                 /\ memory_store' = session_add_message(memory_store, chat.session_id,
                                                        "assistant", utcnow)
            [] response = "tool_calls" /\ while_iteration(iteration) ->
                 /\ chat' = [chat EXCEPT !.iteration = iteration, !.invoked = invoked,
                                         !.tool_calls_made = @ + 1]
                 /\ UNCHANGED memory_store
            [] response = "tool_calls" /\ ~while_iteration(iteration) ->
                 /\ chat' = [chat EXCEPT !.pc = "returned", !.iteration = iteration,
                                         !.invoked = invoked,
                                         !.tool_calls_made = @ + 1,
                                         !.added = @ \o session,
                                         !.result =
                                            fallback_response(chat.tool_calls_made + 1)]
                 /\ memory_store' = session_add_message(memory_store, chat.session_id,
                                                        "assistant", utcnow)
    /\ UNCHANGED <<utcnow, returned, run_vars, patch>>

\* between two calls time passes
ChatTick == chat.pc # "loop" /\ Tick

InitChat == InitMemory

NextChat ==
    \/ \E session_id \in ChatIds \cup {NoSession}, configured \in BOOLEAN :
          ChatStart(session_id, configured)
    \/ \E response \in Responses : ChatInvoke(response)
    \/ ChatTick

ChatSpec == InitChat /\ [][NextChat]_vars

\* ------------------------------------- the gain/loss repair patch (execute)
\* the invoices the two queries of the patch return
MaxInvoices == 3

Companies == {"A", "B"}

\* Company.accounts_frozen_till_date: not set, or a date
FrozenDates == {None, Text("2021-03-31")}

\* purchase_invoices + sales_invoices: one row per invoice
InvoiceLists ==
    UNION {{[i \in 1..k |-> [company |-> f[i], name |-> i]] : f \in [1..k -> Companies]} :
              k \in 0..MaxInvoices}

\* the transaction of the patch: db is what the connection reads, committed
\* is what a rollback returns to
set_value(p, company, value) == [p EXCEPT !.db[company] = value]

commit(p) == [p EXCEPT !.committed = p.db]

rollback(p) == [p EXCEPT !.db = p.committed]

\* the companies that are keys of original_frozen_dates
Keys(original_frozen_dates) ==
    {original_frozen_dates[j].company : j \in DOMAIN original_frozen_dates}

\* "Unfreeze only once per company"
unfreeze_once(p, company) ==
    IF company \notin Keys(p.original_frozen_dates)
    THEN LET accounts_frozen_till_date == p.db[company]
             q == [p EXCEPT !.original_frozen_dates =
                      Append(@, [company |-> company,
                                 frozen_date |-> accounts_frozen_till_date])]
         IN IF accounts_frozen_till_date # None
            THEN set_value(q, company, None)
            ELSE q
    ELSE p

\* the end of the patch without the loop that sets the dates again
restore_frozen_dates_skipped(p, j) == p

\* "for company, frozen_date in original_frozen_dates.items()"
RECURSIVE restore_frozen_dates(_, _)
restore_frozen_dates(p, j) ==
    IF j > Len(p.original_frozen_dates) THEN p
    ELSE LET item == p.original_frozen_dates[j]
         IN restore_frozen_dates(
                IF item.frozen_date # None
                THEN set_value(p, item.company, item.frozen_date)
                ELSE p,
                j + 1)

InitPatch ==
    /\ NoRun
    /\ memory_store = MemoryStore(1, session_ttl_hours)
    /\ utcnow = 0
    /\ returned = <<>>
    /\ chat = NoChat
    /\ \E invoices \in InvoiceLists, frozen \in [Companies -> FrozenDates] :
          patch = [pc |-> "loop", i |-> 1, invoices |-> invoices,
                   original_frozen_dates |-> <<>>,
                   db |-> frozen, committed |-> frozen, before |-> frozen,
                   failed |-> {}]

\* the head of the loop body: the company of the invoice is unfrozen if it
\* is the first invoice of the company
Unfreeze ==
    /\ patch.pc = "loop"
    /\ patch.i <= Len(patch.invoices)
    /\ patch' = [unfreeze_once(patch, patch.invoices[patch.i].company)
                    EXCEPT !.pc = "try"]
    /\ UNCHANGED <<run_vars, memory_store, utcnow, returned, chat>>

\* the try block: the entries of the invoice are cancelled and posted again
\* and the transaction is committed, or something raises and it is rolled back
Repost(fails) ==
    /\ patch.pc = "try"
    /\ patch' = [(IF fails THEN rollback(patch) ELSE commit(patch))
                    EXCEPT !.pc = "loop", !.i = @ + 1,
                           !.failed = IF fails THEN @ \cup {patch.i} ELSE @]
    /\ UNCHANGED <<run_vars, memory_store, utcnow, returned, chat>>

\* after the last invoice the frozen dates are set again
Restore ==
    /\ patch.pc = "loop"
    /\ patch.i > Len(patch.invoices)
    /\ patch' = [restore_frozen_dates(patch, 1) EXCEPT !.pc = "done"]
    /\ UNCHANGED <<run_vars, memory_store, utcnow, returned, chat>>

NextPatch ==
    \/ Unfreeze
    \/ \E fails \in BOOLEAN : Repost(fails)
    \/ Restore

PatchSpec == InitPatch /\ [][NextPatch]_vars

\* ------------------------------------------------------------------ claims
RowsOf(key) == {n \in Names : Key(units[n]) = key}

AllCompleted == \A n \in Names : units[n].status = "Completed"

\* the (date, report type) units that have a row of the status
UnitsWithStatus(st) == {Key(units[n]) : n \in WithStatus(units, st)}

\* C1: the run's status is Completed if and only if every unit is Completed
C1_CompletedIffAllUnitsCompleted == (status = "Completed") <=> AllCompleted

\* C2: at most 4 units of the run are Running at any instant
C2_AtMostFourRunning == Cardinality(UnitsWithStatus("Running")) <= BatchSize

\* C3: every status change of a unit is Queued->Running, Running->Completed,
\* Queued->Paused or Paused->Queued. One step of Resume writes a Paused row
\* twice (Paused->Queued, then Queued->Running by the Start it calls), which
\* shows as Paused->Running over that step.
UnitChanges ==
    {<<"Queued", "Running">>, <<"Running", "Completed">>,
     <<"Queued", "Paused">>, <<"Paused", "Queued">>, <<"Paused", "Running">>}

C3_UnitTransitions ==
    [][\A n \in Names :
          units'[n].status # units[n].status =>
              <<units[n].status, units'[n].status>> \in UnitChanges]_vars

\* C4: the run's status changes only along Queued->Running, Running->Paused,
\* Paused->Running and Running->Completed, and never after Completed
RunChanges ==
    {<<"Queued", "Running">>, <<"Running", "Paused">>,
     <<"Paused", "Running">>, <<"Running", "Completed">>}

C4_RunTransitions ==
    [][status' # status => <<status, status'>> \in RunChanges]_vars

\* C7: the Ledger Poster posts the ledger entries of a run at most once
C7_PostsAtMostOnce == Len(gl_posted) <= 1

\* C5: a submitted run, scheduler active, no Pause, every job executed:
\* eventually every unit is Completed, the poster has posted and the run is
\* Completed
C5_RunCompletes == <>(status = "Completed" /\ AllCompleted /\ gl_posted # <<>>)

C5_Witness ==
    /\ Len(units) > BatchSize
    /\ status = "Completed" /\ AllCompleted /\ gl_posted # <<>>

\* the rows a step moves from Queued to Running
Claimed == {n \in Names : units[n].status = "Queued" /\ units'[n].status = "Running"}

\* the jobs a step adds to the queue for the unit
Dispatched(key) == CopiesIn(key, queue') - CopiesIn(key, queue)

Queued == WithStatus(units, "Queued")

\* C6: a worker run for a unit that is not Running changes no unit, no
\* stored result, nothing of the run, and makes no chain call
C6_WorkerNoOpUnlessRunning ==
    [][\A key \in BagToSet(queue) :
          (/\ Dispatched(key) < 0
           /\ \A n \in RowsOf(key) : units[n].status # "Running")
          => UNCHANGED <<units, status, p_l_closing_balance, gl_posted, advancing>>]_vars

\* a worker has returned at its guard, for a unit that a Pause overtook and
\* for a unit that a twin job had completed
C6_Witness ==
    /\ \E key \in skipped : \A n \in RowsOf(key) : units[n].status = "Paused"
    /\ \E key \in skipped : \A n \in RowsOf(key) : units[n].status = "Completed"

\* C8: when the poster merges and posts, no unit is Queued and none Running
C8_PostsOnlyWhenNoneQueuedOrRunning ==
    [][(gl_posted' # gl_posted \/ p_l_closing_balance' # p_l_closing_balance)
          => /\ WithStatus(units, "Queued") = {}
             /\ WithStatus(units, "Running") = {}
             /\ WithStatus(units', "Queued") = {}
             /\ WithStatus(units', "Running") = {}]_vars

C8_Witness ==
    /\ gl_posted # <<>>
    /\ p_l_closing_balance # <<>>
    /\ WithStatus(units, "Queued") = {}
    /\ WithStatus(units, "Running") = {}

BatchOf(q) == IF q <= BatchSize THEN q ELSE BatchSize

\* the units a step moves from Queued to Running
ClaimedUnits == {Key(units[n]) : n \in Claimed}

\* one worker for each unit the step moved and none for any other
OneWorkerEach ==
    \A key \in {Key(units[n]) : n \in Names} :
        Dispatched(key) = IF key \in ClaimedUnits THEN 1 ELSE 0

\* C9: Start on a Queued or Running run with q >= 1 Queued units and the
\* scheduler active sets the run Running, moves exactly min(4, q) units from
\* Queued to Running and dispatches one worker for each unit moved, no other
C9_StartClaimsBatch ==
    [][(/\ Start(FALSE)
        /\ status \in {"Queued", "Running"}
        /\ Queued # {})
       => /\ status' = "Running"
          /\ Cardinality(ClaimedUnits) = BatchOf(Cardinality(UnitsWithStatus("Queued")))
          /\ \A n \in Names \ Claimed : units'[n] = units[n]
          /\ OneWorkerEach]_vars

\* C10: Advance with q >= 1 Queued units and the scheduler active moves
\* exactly min(4, q) units from Queued to Running, one worker for each
C10_AdvanceClaimsBatch ==
    [][(Advance(FALSE) /\ Queued # {})
       => /\ Cardinality(ClaimedUnits) = BatchOf(Cardinality(UnitsWithStatus("Queued")))
          /\ OneWorkerEach]_vars

\* C10 as amended: Advance claims the first fetched row only: the rows of
\* one (date, report type) unit, of the earliest Queued date, move from
\* Queued to Running, exactly one worker is dispatched, for that unit, and
\* every other row and the run's status are unchanged
C10_AdvanceClaimsOne ==
    [][(Advance(FALSE) /\ Queued # {})
       => \E key \in {Key(units[n]) : n \in Queued} :
            /\ Claimed = RowsOf(key)
            /\ \A m \in Queued : key[1] <= units[m].processing_date
            /\ \A n \in Names \ Claimed : units'[n] = units[n]
            /\ Dispatched(key) = 1
            /\ \A other \in {Key(units[n]) : n \in Names} \ {key} :
                  Dispatched(other) = 0
            /\ status' = status]_vars

\* after the one Start of a run of six units without opening balances a
\* fifth unit has left Queued: Advance has claimed it, alone
C10_Witness ==
    /\ ~parent_pcv.is_first_period_closing_voucher
    /\ Len(units) = 6
    /\ calls = 1
    /\ Cardinality(Queued) = 1

\* the Ledger Poster ran in the step: the summary is stored, a batch of
\* ledger entries is posted and the run is Completed
PosterInvoked ==
    /\ p_l_closing_balance' # <<>>
    /\ Len(gl_posted') = Len(gl_posted) + 1
    /\ status' = "Completed"
    /\ UNCHANGED <<units, queue>>

\* the step writes nothing but the end of the chain call
NothingWritten == UNCHANGED <<status, units, p_l_closing_balance, gl_posted, queue>>

\* C11: Advance that finds no Queued unit changes nothing if a unit is
\* Running and invokes the Ledger Poster if none is, whatever the status
\* of the other units, Paused included
C11_AdvancePostsUnlessRunning ==
    [][\A inactive \in BOOLEAN :
          (Advance(inactive) /\ Queued = {})
          => IF WithStatus(units, "Running") # {}
             THEN NothingWritten
             ELSE PosterInvoked]_vars

\* C11 as amended: Advance that finds no Queued unit invokes the Ledger
\* Poster if every unit is Completed and changes nothing if any unit is
\* Running or Paused
C11_AdvancePostsWhenAllCompleted ==
    [][\A inactive \in BOOLEAN :
          (Advance(inactive) /\ Queued = {})
          => IF AllCompleted THEN PosterInvoked ELSE NothingWritten]_vars

\* every chain call is over, units are Paused, none is Queued or Running,
\* and nothing was posted
C11_Witness ==
    /\ WithStatus(units, "Paused") # {}
    /\ WithStatus(units, "Completed") # {}
    /\ Queued = {}
    /\ WithStatus(units, "Running") = {}
    /\ advancing = 0
    /\ queue = EmptyBag
    /\ gl_posted = <<>>
    /\ p_l_closing_balance = <<>>

\* C12: Start on a Queued or Running run that has no Queued unit sets the
\* run Completed at once and dispatches no worker
C12_StartCompletesWithoutQueued ==
    [][\A inactive \in BOOLEAN :
          (/\ Start(inactive)
           /\ status \in {"Queued", "Running"}
           /\ Queued = {})
          => /\ status' = "Completed"
             /\ UNCHANGED <<units, queue, p_l_closing_balance, gl_posted>>]_vars

\* the run is Completed and the poster never ran: Start completed it
C12_Witness ==
    /\ status = "Completed"
    /\ p_l_closing_balance = <<>>
    /\ Queued = {}

\* C13: Pause sets the run Paused and every Queued unit Paused; a unit that
\* is Running, Paused or Completed keeps its status and its stored result,
\* and no worker is dispatched
C13_PauseFrame ==
    [][/\ PauseRead => (status' = "Paused" /\ UNCHANGED <<units, queue>>)
       /\ PauseWrite =>
             /\ UNCHANGED <<status, queue>>
             /\ \A n \in Names :
                   units'[n] = IF units[n].status = "Queued"
                               THEN [units[n] EXCEPT !.status = "Paused"]
                               ELSE units[n]]_vars

\* the formerly Paused units that are Running after the step
Resumed == {Key(units[n]) : n \in {m \in WithStatus(units, "Paused") :
                                        units'[m].status = "Running"}}

\* the step has the effect of Start on the run set Running
StartInvoked ==
    \E dates_to_process \in get_all_queued(units) :
        LET db == start_pcv_processing([DB EXCEPT !.status = "Running"],
                                       FALSE, dates_to_process)
        IN status' = db.status /\ units' = db.units /\ queue' = db.queue

\* C14: Resume with p >= 0 Paused units and the scheduler active sets the
\* run Running; afterwards no unit is Paused, min(4, p) of the formerly
\* Paused units are Running and the rest Queued; with p = 0 Start is
\* invoked all the same
C14_ResumeRestarts ==
    [][Resume(FALSE)
       => /\ WithStatus(units', "Paused") = {}
          /\ Cardinality(Resumed) = BatchOf(Cardinality(UnitsWithStatus("Paused")))
          /\ \A n \in WithStatus(units, "Paused") :
                units'[n].status \in {"Running", "Queued"}
          /\ IF WithStatus(units, "Paused") = {}
             THEN StartInvoked
             ELSE status' = "Running"]_vars

\* C15: after Pause has returned and until the next Resume no unit moves
\* from Queued to Running; a unit that is Running and is not on the list of
\* a Pause under way leaves Running only by being Completed, by a worker
\* that goes on to its chain call, and it does leave Running: in the end no
\* unit is Running and no chain call is outstanding
C15_PauseStopsClaims ==
    /\ [][paused => Claimed = {}]_vars
    /\ [][\A n \in Names :
            (units[n].status = "Running" /\ n \notin queued_dates)
            => \/ units'[n].status = "Running"
               \/ units'[n].status = "Completed" /\ advancing' = advancing + 1]_vars
    /\ <>[](WithStatus(units, "Running") = {} /\ advancing = 0)

\* Pause found units Running and units Queued; the former have left
\* Running, which only their workers do, and the chain calls are over; the
\* latter are still Paused
C15_Witness ==
    /\ paused
    /\ in_flight
    /\ WithStatus(units, "Running") = {}
    /\ WithStatus(units, "Completed") # {}
    /\ advancing = 0
    /\ WithStatus(units, "Paused") # {}
    /\ Queued = {}

\* C16: when a step moves a unit to Running, no unit with an earlier
\* processing date is left Queued
C16_AscendingDates ==
    [][\A n \in Names :
          (units[n].status # "Running" /\ units'[n].status = "Running")
          => \A m \in Names :
                units'[m].status = "Queued"
                => units[n].processing_date <= units[m].processing_date]_vars

\* a unit was claimed while a unit of a later date stays Queued
C16_Witness ==
    \E n, m \in Names :
        /\ units[n].status \in {"Running", "Completed"}
        /\ units[m].status = "Queued"
        /\ units[n].processing_date < units[m].processing_date

\* C17: Start, Pause and Resume are idempotent: the same call made twice
\* in a row, no worker step in between, leaves the run status, the unit
\* statuses and the dispatched workers as the call made once does
StartTwice ==
    \A first \in get_all_queued(units) :
        LET once == start_pcv_processing(DB, FALSE, first)
        IN \A second \in get_all_queued(once.units) :
              start_pcv_processing(once, FALSE, second) = once

PauseTwice ==
    pause_pcv_processing(pause_pcv_processing(DB)) = pause_pcv_processing(DB)

ResumeTwice ==
    \A first \in get_all_queued(requeue(units)) :
        LET once == resume_pcv_processing(DB, FALSE, first)
        IN \A second \in get_all_queued(requeue(once.units)) :
              resume_pcv_processing(once, FALSE, second) = once

C17_EntryPointsIdempotent == StartTwice /\ PauseTwice /\ ResumeTwice

\* C18: without a failure of the Ledger Poster no run is stuck, that is
\* Running with no unit Queued or Running, no worker pending and no call
\* under way
C18_NoStuckRun ==
    ~(/\ status = "Running"
      /\ Queued = {}
      /\ WithStatus(units, "Running") = {}
      /\ queue = EmptyBag
      /\ advancing = 0
      /\ ~pausing)

\* the calendar days of the voucher period
PeriodDays == parent_pcv.period_start_date..parent_pcv.period_end_date

\* the rows of a child table for a date and a report type
RowsIn(table, d, rt) ==
    {n \in Names : /\ units[n].parentfield = table
                   /\ Key(units[n]) = <<d, rt>>}

\* nothing has run since validation
Validated == calls = 0

\* C19: validating a run whose period spans N days creates exactly 2*N
\* units, a Profit and Loss and a Balance Sheet unit per day, all Queued,
\* and sets the run Queued
C19_TwoUnitsPerDay ==
    /\ Len(units) = 2 * Cardinality(PeriodDays)
    /\ \A d \in PeriodDays, rt \in ReportTypes :
          Cardinality({n \in Names : Key(units[n]) = <<d, rt>>}) = 1
    /\ Validated => (status = "Queued" /\ Queued = Names)

\* the days from the first to the last posting date of the ledger
PostingDays ==
    LET posting == {GLEntry[i].posting_date : i \in DOMAIN GLEntry}
    IN {d \in 0..(MaxDays + Len(GLEntry)) :
          /\ \E x \in posting : x <= d
          /\ \E x \in posting : d <= x}

\* C19 as amended: validation creates 2*N rows in dates_to_process, a
\* Profit and Loss and a Balance Sheet row per day of the period; for a
\* first period closing voucher it also creates in opening_balances one
\* Balance Sheet row per day from the first to the last posting date of
\* the company's ledger; all rows are Queued and the run is Queued
C19_UnitsCreated ==
    LET opening == IF parent_pcv.is_first_period_closing_voucher
                   THEN PostingDays ELSE {}
    IN /\ Len(units) = 2 * Cardinality(PeriodDays) + Cardinality(opening)
       /\ \A d \in PeriodDays, rt \in ReportTypes :
             Cardinality(RowsIn("dates_to_process", d, rt)) = 1
       /\ \A d \in opening :
             Cardinality(RowsIn("opening_balances", d, "Balance Sheet")) = 1
       /\ Validated => (status = "Queued" /\ Queued = Names)

\* a validated run of a first period closing voucher
C19_Witness ==
    /\ Validated
    /\ parent_pcv.is_first_period_closing_voucher
    /\ Len(units) > 2 * Cardinality(PeriodDays)

\* C20: no two rows of a run have the same (processing date, report type)
C20_UniqueUnitKeys ==
    \A n, m \in Names : Key(units[n]) = Key(units[m]) => n = m

\* the summary the poster computes from the stored results of the units
MergedSummary ==
    <<json_dict_from(EmptyDict,
        build_dimension_wise_balance_dict(closing_balances(units, 1)), 1)>>

Orphaned(key) ==
    /\ key \in faults.aborted
    /\ ~BagIn(key, queue)
    /\ \A n \in RowsOf(key) : units[n].status = "Running"

\* C22: a worker that aborts before it writes leaves its unit Running and
\* makes no chain call; the unit is processed again when its job is
\* delivered again, and when Start is called again
C22_AbortedUnitIsRetried ==
    /\ [][\A key \in BagToSet(queue) :
            WorkerAborts(key[1], key[2])
            => UNCHANGED <<units, status, advancing, p_l_closing_balance, gl_posted>>]_vars
    /\ [][\A key \in faults.aborted :
            Redeliver(key[1], key[2]) => Dispatched(key) = 1 /\ units' = units]_vars
    /\ [][\A key \in faults.aborted :
            (Orphaned(key) /\ Start(FALSE)) => Dispatched(key) >= 1]_vars

\* the stored result rows of the units of the report type, of all dates
ResultsOf(report_type) ==
    Flatten([n \in DOMAIN units |->
               IF units[n].report_type = report_type /\ units[n].closing_balance # <<>>
               THEN units[n].closing_balance[1] ELSE <<>>])

PLResults == ResultsOf("Profit and Loss")

\* the dimension keys and, per key, the accounts of the Profit and Loss results
PLKeys == {get_dimension_key(PLResults[i]) : i \in DOMAIN PLResults}

RowsFor(k, acc) ==
    {i \in DOMAIN PLResults :
        get_dimension_key(PLResults[i]) = k /\ PLResults[i].account = acc}

PLAccounts(k) ==
    {PLResults[i].account : i \in {j \in DOMAIN PLResults :
                                     get_dimension_key(PLResults[j]) = k}}

RECURSIVE SumNet(_, _)
SumNet(k, accs) ==
    IF accs = {} THEN 0
    ELSE LET acc == CHOOSE x \in accs : TRUE
         IN (SumOver(PLResults, RowsFor(k, acc), "debit")
             - SumOver(PLResults, RowsFor(k, acc), "credit"))
            + SumNet(k, accs \ {acc})

\* debit minus credit of the account under the key, over all dates
Net(k, acc) == SumNet(k, {acc})

\* the poster ran to its end in this state
Posted == status = "Completed" /\ p_l_closing_balance # <<>>

\* the batch handed to make_gl_entries, empty if there was nothing to post
Batch == IF gl_posted = <<>> THEN <<>> ELSE gl_posted[Len(gl_posted)]

\* the posted entries that were built for the dimension key
EntriesOf(k) == {j \in DOMAIN Batch : Batch[j].dimensions = update_dimensions(k)}

EntriesFor(k, acc) == {j \in EntriesOf(k) : Batch[j].account = acc}

\* C23: per dimension key the posted batch has exactly one reversing entry
\* for every Profit and Loss account with a nonzero net balance, on the
\* opposite side, none for an account with a zero net balance, and exactly
\* one entry on the closing account, also when the key's net is zero
C23_EntriesPerKey ==
    Posted =>
      /\ \A k \in PLKeys :
            /\ \A acc \in PLAccounts(k) :
                  IF Net(k, acc) # 0
                  THEN /\ Cardinality(EntriesFor(k, acc)) = 1
                       /\ \A j \in EntriesFor(k, acc) :
                             IF Net(k, acc) > 0
                             THEN Batch[j].credit = Net(k, acc) /\ Batch[j].debit = 0
                             ELSE Batch[j].debit = - Net(k, acc) /\ Batch[j].credit = 0
                  ELSE EntriesFor(k, acc) = {}
            /\ Cardinality(EntriesFor(k, parent_pcv.closing_account_head)) = 1
      /\ \A j \in DOMAIN Batch :
            \E k \in PLKeys :
               /\ j \in EntriesOf(k)
               /\ Batch[j].account \in PLAccounts(k) \cup {parent_pcv.closing_account_head}

\* posted: under one key the only account nets to zero and the key's
\* closing entry is zero on both sides, and an account of another key has a
\* net credit balance
C23_Witness ==
    /\ Posted
    /\ \E k \in PLKeys :
          /\ \A acc \in PLAccounts(k) : Net(k, acc) = 0
          /\ \A j \in EntriesFor(k, parent_pcv.closing_account_head) :
                Batch[j].debit = 0 /\ Batch[j].credit = 0
    /\ \E k \in PLKeys : \E acc \in PLAccounts(k) : Net(k, acc) < 0

\* C24: per dimension key the closing entry carries the sum over the key's
\* Profit and Loss accounts of debit minus credit, and the debits of the
\* key's posted entries equal their credits
C24_BatchBalancesPerKey ==
    Posted =>
      \A k \in PLKeys :
         /\ \A j \in EntriesFor(k, parent_pcv.closing_account_head) :
               Batch[j].debit - Batch[j].credit = SumNet(k, PLAccounts(k))
         /\ SumOver(Batch, EntriesOf(k), "debit") = SumOver(Batch, EntriesOf(k), "credit")

\* posted: a key with two accounts of nonzero net, and a key whose net is
\* not zero
C24_Witness ==
    /\ Posted
    /\ \E k \in PLKeys :
          /\ Cardinality({acc \in PLAccounts(k) : Net(k, acc) # 0}) = 2
          /\ SumNet(k, PLAccounts(k)) # 0
          /\ SumOver(Batch, EntriesOf(k), "debit") > 0

\* the summary stored on the run
Summary == p_l_closing_balance[1]

SummaryKeys == {Summary.keys[i] : i \in DOMAIN Summary.keys}

\* C25: the stored summary has, for every dimension key and account of the
\* Profit and Loss results, the sums of debit and of credit over the results
\* of all dates, and nothing that comes from another result
C25_SummaryIsMergedResults ==
    Posted =>
      /\ \A k \in PLKeys :
            /\ Has(Summary, str_key(k))
            /\ \A acc \in PLAccounts(k) :
                  /\ Has(Summary.val[str_key(k)], acc)
                  /\ Summary.val[str_key(k)].val[acc].debit
                        = SumOver(PLResults, RowsFor(k, acc), "debit")
                  /\ Summary.val[str_key(k)].val[acc].credit
                        = SumOver(PLResults, RowsFor(k, acc), "credit")
      /\ \A ks \in SummaryKeys :
            \A i \in DOMAIN Summary.val[ks].keys :
               \/ Summary.val[ks].keys[i] = "balances"
               \/ \A k \in PLKeys :
                     str_key(k) = ks => Summary.val[ks].keys[i] \in PLAccounts(k)

\* s.split(sep)
RECURSIVE split(_, _)
split(s, sep) ==
    IF \A i \in DOMAIN s : s[i] # sep THEN <<s>>
    ELSE LET i == CHOOSE x \in DOMAIN s :
                     s[x] = sep /\ \A y \in 1..(x - 1) : s[y] # sep
         IN <<SubSeq(s, 1, i - 1)>> \o split(SubSeq(s, i + 1, Len(s)), sep)

\* the values read back from a stored key: the strings between the commas
parse_key(s) ==
    LET parts == split(s, ",")
    IN [i \in DOMAIN parts |-> [null |-> FALSE, str |-> parts[i]]]

\* C26: every dimension key, serialized by the poster and split on the
\* comma, gives back its values in order, and two different keys are stored
\* under different strings
C26_KeyRoundTrip ==
    Posted =>
      /\ \A k \in PLKeys :
            Has(Summary, str_key(k)) /\ parse_key(str_key(k)) = k
      /\ \A k1, k2 \in PLKeys : str_key(k1) = str_key(k2) => k1 = k2

\* the rows a step writes
Written == {n \in Names : units'[n] # units[n]}

\* C27: a worker that finds its unit Running writes exactly one row, the
\* unit's result and status, and changes neither the status of the run nor
\* the status of another unit; its chain call is the scheduler's step
C27_WorkerWritesOneUnit ==
    [][\A key \in BagToSet(queue) :
          (/\ Worker(key[1], key[2])
           /\ \A n \in RowsOf(key) : units[n].status = "Running")
          => /\ Cardinality(Written) = 1
             /\ \A n \in Written :
                   /\ Key(units[n]) = key
                   /\ units'[n].status = "Completed"
                   /\ units'[n].closing_balance # <<>>
             /\ status' = status
             /\ \A n \in Names :
                   Key(units[n]) # key => units'[n].status = units[n].status]_vars

\* C28: the MemoryStore never holds more than max_sessions sessions
C28_AtMostMaxSessions ==
    memory_store # <<>> => Len(memory_store.sessions) <= memory_store.max_sessions

\* the step is a call that runs _cleanup_expired
CleansUp == ListSessions \/ \E session_id \in SessionIds : GetSession(session_id)

\* the sessions left after the expired ones are deleted
Unexpired == Sessions(memory_store) \ Expired

\* C29: when max_sessions is enforced, exactly the excess of the stored
\* sessions over max_sessions is removed, and no session is removed while a
\* session with a strictly older updated_at is kept
C29_EvictsOldest ==
    [][CleansUp =>
         /\ returned'.evicted \subseteq Unexpired
         /\ Cardinality(returned'.evicted) =
               (IF Cardinality(Unexpired) > memory_store.max_sessions
                THEN Cardinality(Unexpired) - memory_store.max_sessions ELSE 0)
         /\ \A gone \in returned'.evicted :
               \A kept \in Unexpired \ returned'.evicted :
                  /\ kept.updated_at >= gone.updated_at
                  /\ kept.session_id = returned'.session_id
                     \/ kept \in Sessions(memory_store')]_vars

\* a call removed the oldest of three sessions and kept a session that was
\* updated later than it
C29_Witness ==
    /\ returned # <<>>
    /\ returned.call = "list_sessions"
    /\ Len(memory_store.sessions) = MaxSessions
    /\ \E gone \in returned.evicted :
          \E kept \in Sessions(memory_store) : gone.updated_at < kept.updated_at

\* C30: list_sessions never returns a session updated more than
\* session_ttl_hours ago and get_session returns a new, empty session for
\* it; get_session returns a session that is within the time to live and was
\* not deleted or evicted with all its messages, which are kept in the order
\* of their addition
C30_SessionExpiry ==
    /\ [][ListSessions =>
             \A session \in Sessions(memory_store) :
                utcnow - session.updated_at > memory_store.session_ttl
                => \A i \in DOMAIN returned'.value :
                      returned'.value[i] # session.session_id]_vars
    /\ [][\A session \in Sessions(memory_store) :
             GetSession(session.session_id) =>
                IF utcnow - session.updated_at > memory_store.session_ttl
                THEN returned'.value = ConversationSession(session.session_id, utcnow)
                ELSE (\/ session \notin returned'.evicted
                      \/ Cardinality(Unexpired) <= memory_store.max_sessions)
                     => returned'.value = session]_vars
    /\ [][\A session \in Sessions(memory_store), role \in Roles :
             AddMessage(session.session_id, role) =>
                Lookup(memory_store'.sessions, session.session_id).messages
                  = Append(session.messages, Message(role))]_vars

\* get_session returned a new session for one that had expired with a
\* message, and a session with a message is still stored
C30_Witness ==
    /\ returned # <<>>
    /\ returned.call = "get_session"
    /\ returned.value.messages = <<>>
    /\ \E session \in returned.expired :
          session.session_id = returned.session_id /\ session.messages # <<>>
    /\ \E session \in Sessions(memory_store) : session.messages # <<>>

\* C31: with the scheduler inactive Start and Advance claim nothing: no
\* unit changes, no worker is enqueued, and Start on a run that is Queued
\* or Running and has Queued units sets the run Running
C31_InactiveClaimsNothing ==
    /\ [][Start(TRUE) =>
             /\ units' = units
             /\ queue' = queue
             /\ (status \in {"Queued", "Running"} /\ Queued # {})
                => status' = "Running"]_vars
    /\ [][Advance(TRUE) => units' = units /\ queue' = queue]_vars

\* Start was called on the validated run and left every unit Queued and
\* the run Running
C31_Witness ==
    /\ calls = 1
    /\ ~paused
    /\ status = "Running"
    /\ queue = EmptyBag
    /\ \A n \in Names : units[n].status = "Queued"

\* the (date, report type) units of the run
UnitKeys == {Key(units[n]) : n \in Names}

\* the units a step sets Running; Resume does so for Paused units, which
\* it sets Queued before Start claims them
ClaimedKeys ==
    {Key(units[n]) : n \in {m \in Names : units[m].status # "Running"
                                          /\ units'[m].status = "Running"}}

\* C32: a step enqueues exactly one worker for every unit it moves from
\* Queued to Running and none for any other unit, and in every state each
\* Running unit has exactly one worker enqueued
C32_ClaimAndDispatchPaired ==
    /\ [][\A key \in UnitKeys :
             Dispatched(key) = (IF key \in ClaimedKeys THEN 1 ELSE 0)
             \/ Dispatched(key) < 0]_vars
    /\ [](\A key \in UnitsWithStatus("Running") : CopiesIn(key, queue) = 1)

\* C33: whenever the run is Completed the poster has stored the summary
\* on the run and has posted the closing ledger entries
C33_CompletedOnlyByPoster ==
    status = "Completed" => p_l_closing_balance # <<>> /\ gl_posted # <<>>

\* C34: the bulk update of Pause sets no unit Paused that is Running or
\* Completed when the update runs, whatever ran since Pause read the names
C34_PauseSafeUnderInterleaving ==
    [][PauseWrite =>
         \A n \in Names :
            units[n].status \in {"Running", "Completed"}
            => units'[n].status = units[n].status]_vars

\* the value an entry has under a field name, null when the field was never
\* assigned
FieldOf(entry, fieldname) ==
    IF \E p \in entry.dimensions : p[1] = Text(fieldname)
    THEN (CHOOSE p \in entry.dimensions : p[1] = Text(fieldname))[2]
    ELSE None

\* C35: every posted entry built for a dimension key has, under the i-th
\* dimension name, the i-th value of the key
C35_EntryCarriesDimensions ==
    Posted =>
        \A k \in PLKeys : \A j \in EntriesOf(k) : \A i \in DOMAIN get_dimensions :
            FieldOf(Batch[j], get_dimensions[i]) = k[i]

\* C36: a call invokes the LLM at most max_iterations times: every
\* iteration that stays in the loop counts one up towards max_iterations,
\* and the iteration whose response is the tenth that requests tools ends the
\* call with the fallback response, its warning and error False
C36_ChatTerminates ==
    /\ [](chat.invoked <= max_iterations)
    /\ [][chat.pc = "loop" /\ chat'.pc = "loop"
            => /\ chat'.iteration = chat.iteration + 1
               /\ chat'.invoked = chat'.iteration
               /\ chat'.iteration < max_iterations]_vars
    /\ [][(/\ chat.pc = "loop"
           /\ chat'.invoked = max_iterations
           /\ chat'.tool_calls_made = chat.tool_calls_made + 1)
            => /\ chat'.pc = "returned"
               /\ chat'.result = fallback_response(max_iterations)
               /\ chat'.result.warning = "Max iterations reached"
               /\ chat'.result.error = FALSE]_vars

C36_Witness ==
    /\ chat.pc = "returned"
    /\ chat.invoked = max_iterations
    /\ chat.tool_calls_made = max_iterations
    /\ chat.result.warning = "Max iterations reached"

\* user, assistant, user, assistant, ...
Alternates(messages) ==
    \A i \in DOMAIN messages :
        messages[i].role = (IF i % 2 = 1 THEN "user" ELSE "assistant")

\* C37: between calls the messages of every stored session alternate user,
\* assistant, ..., also after calls in which the LLM raised, and a call on a
\* session that returned a response of the LLM or the fallback has added one
\* user message and then one assistant message
C37_MessagesAlternate ==
    /\ chat.pc # "loop"
         => \A session \in Sessions(memory_store) : Alternates(session.messages)
    /\ (chat.pc = "returned" /\ chat.session_id # NoSession
                             /\ chat.result # not_configured)
         => chat.added = <<"user", "assistant">>

\* the invoices of a company
InvoicesOf(company) ==
    {i \in DOMAIN patch.invoices : patch.invoices[i].company = company}

\* C38: when the patch has run, every company has the frozen date it had
\* before the patch, whichever of its invoices failed
C38_FrozenDatesRestored ==
    patch.pc = "done" => \A company \in Companies :
                            patch.db[company] = patch.before[company]

\* a frozen company with a failed and with a corrected invoice
C38_Witness ==
    /\ patch.pc = "done"
    /\ \E company \in Companies :
          /\ patch.before[company] # None
          /\ patch.db[company] = patch.before[company]
          /\ InvoicesOf(company) \cap patch.failed # {}
          /\ InvoicesOf(company) \ patch.failed # {}

\* C39: while the entries of an invoice are cancelled and posted again, the
\* company of the invoice has no frozen date, also after an invoice of the
\* company failed
C39_UnfrozenWhileReposting ==
    patch.pc = "try" => patch.db[patch.invoices[patch.i].company] = None

====
